---- MODULE Spec2Model ----
(***************************************************************************)
(* A model of the PDF field-filling engine of src/fillPdf.ts:                *)
(* fillFieldsToNewPdfBytes, fillFieldsInPlace and their helpers.             *)
(*                                                                           *)
(* Numbers.  All lengths and font sizes are integers counted in 1/80 of a    *)
(* point (Pt(1) = 80), so that every factor of the code (0.5, 1.2, 0.2,      *)
(* 1.35, /2) is exact on the quarter-point grid the inputs are drawn from.   *)
(* Text.  A string is a sequence of characters; a character is named by a    *)
(* short string ("alef" is U+05D0, "hiriq" is U+05B4, ...).                  *)
(* An optional number that is not given (undefined) is None; an optional     *)
(* string that is not given is "unset".                                      *)
(***************************************************************************)
EXTENDS Integers, Sequences, FiniteSets, TLC

VARIABLES
    hasSegmenter,  \* whether Intl.Segmenter exists in the runtime
    \* --- rtlVisualize applied once and twice to one string
    rtlIn, rtlOut, rtlOut2, rtlPc,
    \* --- computeAlignedX applied to one set of arguments
    alignIn, alignOut, alignPc,
    \* --- one iteration of the field loop of fillFieldsToNewPdfBytes
    fieldSpec,     \* the FieldSpec found in the field map
    fieldValue,    \* rawValue
    fieldOpts,     \* the FillOptions
    fieldOut,      \* what the iteration computed and the draw calls it made
    fieldPc,
    \* --- one call of fillFieldsInPlace
    fields,        \* the request: <<[key, value], ...>> in the order supplied
    mappedKeys,    \* the keys the field map has an entry for
    pc,            \* where the call is
    entries,       \* Object.entries(fields), once the loop has started
    next,          \* the index in entries of the next entry to process
    pdfDoc,        \* the draw calls made on the loaded document, each with its field
    outBytes,      \* what fillFieldsToNewPdfBytes returned, if it has returned
    error,         \* the error the call was rejected with, "none" while none
    outFile,       \* what outputPath holds on disk
    \* --- two POST requests served by one process
    calls,         \* per request: where it is, its body, its handles, its result
    docs,          \* the documents loaded so far, by handle: fonts and draw calls
    \* --- the field mapper page
    mPicked,       \* how many files were picked; the last one picked is file mPicked
    mLoads,        \* the onPickFile calls in flight: their file and where they are
    mUi,           \* the React state: pdf, pageIndex, scale, hoverPoint, lastClick, fieldMap
    mRenders,      \* the renderPageAndOverlay calls in flight: the state they closed over
    mCanvas,       \* what the PDF canvas shows
    mOverlay,      \* what the overlay canvas shows
    mEvents        \* how many user events were handled

rtlVars   == <<rtlIn, rtlOut, rtlOut2, rtlPc>>
alignVars == <<alignIn, alignOut, alignPc>>
fieldVars == <<fieldSpec, fieldValue, fieldOpts, fieldOut, fieldPc>>

mapperVars == <<mPicked, mLoads, mUi, mRenders, mCanvas, mOverlay, mEvents>>

postVars  == <<calls, docs, mapperVars>>

fillVars  == <<fields, mappedKeys, pc, entries, next, pdfDoc, outBytes, error, outFile,
               postVars>>

vars == <<hasSegmenter, rtlVars, alignVars, fieldVars, fillVars>>

(***************************** bounds **************************************)
\* longest string given to rtlVisualize
MaxLen == 4

\* longest field value given to the field loop
MaxValueLen == 3

\* most entries in a request
MaxFields == 3

\* the number of writes fs.writeFile needs for the serialized document
DocChunks == 2

(***************************** numbers *************************************)
None == -1

Pt(n) == 80 * n

(***************************** sequences ***********************************)
RECURSIVE Reverse(_)
Reverse(s) == IF s = <<>> THEN <<>> ELSE Reverse(Tail(s)) \o <<Head(s)>>

RECURSIVE Join(_)
Join(ss) == IF ss = <<>> THEN <<>> ELSE Head(ss) \o Join(Tail(ss))

RECURSIVE StringsUpTo(_, _)
StringsUpTo(alphabet, n) ==
    IF n = 0 THEN {<<>>}
    ELSE LET shorter == StringsUpTo(alphabet, n - 1)
         IN  shorter \cup {Append(s, c) : s \in shorter, c \in alphabet}

(***************************** characters **********************************)
HebrewLetters == {"alef", "bet"}          \* U+05D0, U+05D1
HebrewMarks   == {"hiriq"}                \* U+05B4, a niqqud point (Mn)
LatinLetters  == {"A", "b"}
Digits        == {"7", "2"}
Whitespace    == {"sp", "nl", "cr"}       \* " ", "\n", "\r"
FastPunct     == {"dot"}                  \* "."
OtherSymbols  == {"at"}                   \* "@"
OtherMarks    == {"acute"}                \* U+0301, a combining mark (Mn)

\* /[\u0590-\u05FF]/ on one character
IsHebrew(c) == c \in HebrewLetters \cup HebrewMarks

\* /[A-Za-z0-9]/ on one character
IsLatinDigit(c) == c \in LatinLetters \cup Digits

\* the character class of the fast-path test of rtlVisualize
IsFastPathChar(c) ==
    IsHebrew(c) \/ c \in Whitespace \/ c \in FastPunct \/ c \in Digits

containsHebrew(s) == \E i \in 1..Len(s) : IsHebrew(s[i])

(***************************** graphemes ***********************************)
\* Unicode extended grapheme clusters, as Intl.Segmenter yields them, for the
\* characters above: CR LF is one cluster (GB3), a control character is a
\* cluster of its own (GB4, GB5), a combining mark (Grapheme_Extend) joins
\* what precedes it (GB9), every other boundary is a break (GB999).
IsExtend(c) == c \in HebrewMarks \cup OtherMarks

IsControl(c) == c \in {"nl", "cr"}

RECURSIVE ExtendRun(_, _)
ExtendRun(s, i) ==
    IF i <= Len(s) /\ IsExtend(s[i]) THEN 1 + ExtendRun(s, i + 1) ELSE 0

\* (mutant) a cluster takes one combining mark at most
ClusterLenOneMark(s) ==
    IF Len(s) >= 2 /\ s[1] = "cr" /\ s[2] = "nl" THEN 2
    ELSE IF IsControl(s[1]) THEN 1
    ELSE IF Len(s) >= 2 /\ IsExtend(s[2]) THEN 2
    ELSE 1

ClusterLen(s) ==
    IF Len(s) >= 2 /\ s[1] = "cr" /\ s[2] = "nl" THEN 2
    ELSE IF IsControl(s[1]) THEN 1
    ELSE 1 + ExtendRun(s, 2)

RECURSIVE Graphemes(_)
Graphemes(s) ==
    IF s = <<>> THEN <<>>
    ELSE LET n == ClusterLen(s)
         IN  <<SubSeq(s, 1, n)>> \o Graphemes(SubSeq(s, n + 1, Len(s)))

reverseGraphemes(s, seg) ==
    IF ~seg THEN Reverse(s)                 \* s.split("").reverse().join("")
    ELSE Join(Reverse(Graphemes(s)))

(***************************** rtlVisualize ********************************)
\* the three alternatives of the tokenizing regular expression
RunClass(c) ==
    IF IsHebrew(c) THEN "hebrew"
    ELSE IF IsLatinDigit(c) THEN "latin"
    ELSE "other"

RECURSIVE RunLen(_, _)
RunLen(s, i) ==
    IF i <= Len(s) /\ RunClass(s[i]) = RunClass(s[1])
    THEN 1 + RunLen(s, i + 1) ELSE 0

\* (mutant) the regular expression without its third alternative: the
\* characters of the other runs are matched by nothing and left out
RECURSIVE TokensNoOther(_)
TokensNoOther(s) ==
    IF s = <<>> THEN <<>>
    ELSE LET n == RunLen(s, 1)
         IN  (IF RunClass(s[1]) = "other" THEN <<>> ELSE <<SubSeq(s, 1, n)>>)
             \o TokensNoOther(SubSeq(s, n + 1, Len(s)))

\* (mutant) every alternative matches one character only (no "+")
RECURSIVE TokensOneChar(_)
TokensOneChar(s) ==
    IF s = <<>> THEN <<>> ELSE <<<<Head(s)>>>> \o TokensOneChar(Tail(s))

\* input.match(/[\u0590-\u05FF]+|[A-Za-z0-9]+|[^\u0590-\u05FFA-Za-z0-9]+/g),
\* with <<>> standing for the null that match returns when nothing matches
RECURSIVE Tokens(_)
Tokens(s) ==
    IF s = <<>> THEN <<>>
    ELSE LET n == RunLen(s, 1)
         IN  <<SubSeq(s, 1, n)>> \o Tokens(SubSeq(s, n + 1, Len(s)))

IsFastPath(input) ==
    /\ input # <<>>
    /\ \A i \in 1..Len(input) : IsFastPathChar(input[i])

rtlVisualize(input, seg) ==
    IF IsFastPath(input) THEN reverseGraphemes(input, seg)
    ELSE LET tokens == Tokens(input)
         IN  IF tokens = <<>> THEN input
             ELSE LET processed ==
                          [k \in 1..Len(tokens) |->
                              IF containsHebrew(tokens[k])
                              THEN reverseGraphemes(tokens[k], seg)
                              ELSE tokens[k]]
                  IN  Join(Reverse(processed))

(***************************** FieldSpec, FillOptions **********************)
\* a truthy number: neither undefined nor 0
Truthy(n) == n # None /\ n # 0

\* a ?? b on optional numbers
OrElse(a, b) == IF a # None THEN a ELSE b

\* an optional boolean option ("unset", "true", "false") ?? dflt
OptBool(v, dflt) == IF v = "unset" THEN dflt ELSE v = "true"

\* a FieldSpec with only its required members given
PlainSpec ==
    [pageIndex |-> 0, x |-> Pt(90), y |-> Pt(650),
     width |-> None, height |-> None, fontSize |-> None, lineHeight |-> None,
     align |-> "unset", maxFontSize |-> None, minFontSize |-> None,
     clearBackground |-> FALSE, direction |-> "unset"]

\* FillOptions = {}
PlainOpts ==
    [defaultFontSize |-> None, autoDetectRtl |-> "unset",
     defaultRtlAlignRight |-> "unset"]

(***************************** the font ************************************)
\* font.widthOfTextAtSize(text, size): the sum of the advance widths of the
\* glyphs of text, scaled by size.  In the font of the model every glyph is
\* one em wide and a combining mark has no advance.
Advance(c) == IF IsExtend(c) THEN 0 ELSE 1

RECURSIVE Advances(_)
Advances(line) ==
    IF line = <<>> THEN 0 ELSE Advance(Head(line)) + Advances(Tail(line))

widthOfTextAtSize(line, size) == Advances(line) * size

RECURSIVE maxLineWidth(_, _)
maxLineWidth(lines, fontSize) ==
    IF lines = <<>> THEN 0
    ELSE LET w   == widthOfTextAtSize(Head(lines), fontSize)
             max == maxLineWidth(Tail(lines), fontSize)
         IN  IF w > max THEN w ELSE max

(***************************** layout helpers ******************************)
\* (mutant) "center" and "right" exchanged
computeAlignedXSwapped(x, width, align, textWidth) ==
    IF ~Truthy(width) \/ align = "left" THEN x
    ELSE IF align = "right" THEN x + (width - textWidth) \div 2
    ELSE x + (width - textWidth)

\* (mutant) the width of the text left out of the offset
computeAlignedXOfBox(x, width, align, textWidth) ==
    IF ~Truthy(width) \/ align = "left" THEN x
    ELSE IF align = "center" THEN x + width \div 2
    ELSE x + width

computeAlignedX(x, width, align, textWidth) ==
    IF ~Truthy(width) \/ align = "left" THEN x
    ELSE IF align = "center" THEN x + (width - textWidth) \div 2
    ELSE x + (width - textWidth)

\* size -= 0.5
HalfPt == Pt(1) \div 2

\* spec.minFontSize ?? 6
DefaultMinSize == Pt(6)

\* (mutant) the loop ends with "return size" instead of "return minSize"
RECURSIVE FitLoopReturnsSize(_, _, _, _, _)
FitLoopReturnsSize(size, minSize, width, lines, n) ==
    IF size > minSize
    THEN IF maxLineWidth(lines, size) <= width
         THEN [size |-> size, measured |-> n + 1]
         ELSE FitLoopReturnsSize(size - Pt(1) \div 2, minSize, width, lines, n + 1)
    ELSE [size |-> size, measured |-> n]

\* (mutant) the loop steps down by 1 instead of 0.5
RECURSIVE FitLoopWholeSteps(_, _, _, _, _)
FitLoopWholeSteps(size, minSize, width, lines, n) ==
    IF size > minSize
    THEN IF maxLineWidth(lines, size) <= width
         THEN [size |-> size, measured |-> n + 1]
         ELSE FitLoopWholeSteps(size - Pt(1), minSize, width, lines, n + 1)
    ELSE [size |-> minSize, measured |-> n]

\* (mutant) the loop runs while size >= minSize
RECURSIVE FitLoopInclusive(_, _, _, _, _)
FitLoopInclusive(size, minSize, width, lines, n) ==
    IF size >= minSize
    THEN IF maxLineWidth(lines, size) <= width
         THEN [size |-> size, measured |-> n + 1]
         ELSE FitLoopInclusive(size - Pt(1) \div 2, minSize, width, lines, n + 1)
    ELSE [size |-> minSize, measured |-> n]

\* the while loop of fitFontSizeToWidth, entered with n measurements made:
\* the size it returns and how many times it measured the widest line
RECURSIVE FitLoop(_, _, _, _, _)
FitLoop(size, minSize, width, lines, n) ==
    IF size > minSize
    THEN IF maxLineWidth(lines, size) <= width
         THEN [size |-> size, measured |-> n + 1]
         ELSE FitLoop(size - HalfPt, minSize, width, lines, n + 1)
    ELSE [size |-> minSize, measured |-> n]

\* (mutant) without a box width the maximum size is returned, not the fallback
FitRunMaxWithoutWidth(lines, spec, fallback) ==
    IF ~Truthy(spec.width)
    THEN [size |-> OrElse(spec.maxFontSize, fallback), measured |-> 0]
    ELSE FitLoop(OrElse(spec.maxFontSize, fallback),
                 OrElse(spec.minFontSize, DefaultMinSize),
                 spec.width, lines, 0)

FitRun(lines, spec, fallback) ==
    IF ~Truthy(spec.width) THEN [size |-> fallback, measured |-> 0]
    ELSE FitLoop(OrElse(spec.maxFontSize, fallback),
                 OrElse(spec.minFontSize, DefaultMinSize),
                 spec.width, lines, 0)

fitFontSizeToWidth(lines, spec, fallback) == FitRun(lines, spec, fallback).size

estimateBlockHeight(lineCount, fontSize, lineHeight) ==
    LET lh    == OrElse(lineHeight, (fontSize * 6) \div 5)
        one   == (fontSize * 27) \div 20
        block == (lineCount - 1) * lh + one
    IN  IF one >= block THEN one ELSE block

\* rendered.split(/\r?\n/)
StripCr(line) ==
    IF line # <<>> /\ line[Len(line)] = "cr"
    THEN SubSeq(line, 1, Len(line) - 1) ELSE line

RECURSIVE SplitFrom(_, _)
SplitFrom(s, line) ==
    IF s = <<>> THEN <<line>>
    ELSE IF Head(s) = "nl" THEN <<StripCr(line)>> \o SplitFrom(Tail(s), <<>>)
    ELSE SplitFrom(Tail(s), Append(line, Head(s)))

\* (mutant) the split followed by a filter that drops the empty lines
SplitLinesNoEmpty(s) == SelectSeq(SplitFrom(s, <<>>), LAMBDA line : line # <<>>)

SplitLines(s) == SplitFrom(s, <<>>)

(***************************** one field ***********************************)
direction(spec, rawValue, autoDetectRtl) ==
    IF spec.direction # "unset" THEN spec.direction
    ELSE IF autoDetectRtl /\ containsHebrew(rawValue) THEN "rtl" ELSE "ltr"

align(spec, dir, defaultRtlAlignRight) ==
    IF spec.align # "unset" THEN spec.align
    ELSE IF dir = "rtl" /\ defaultRtlAlignRight /\ Truthy(spec.width)
         THEN "right" ELSE "left"

baseFontSize(spec, opts) ==
    OrElse(spec.fontSize, OrElse(opts.defaultFontSize, Pt(12)))

rendered(dir, rawValue, seg) ==
    IF dir = "rtl" THEN rawValue
    ELSE IF dir = "ltr" /\ containsHebrew(rawValue) THEN rtlVisualize(rawValue, seg)
    ELSE rawValue

\* (mutant) the rectangle without the baseline tweak of 0.2 x the size
ClearRectNoTweak(spec, lines, fitted) ==
    LET bgWidth  == OrElse(spec.width, maxLineWidth(lines, fitted))
        bgHeight == OrElse(spec.height,
                           estimateBlockHeight(Len(lines), fitted, spec.lineHeight))
    IN  [op |-> "rect", page |-> spec.pageIndex, text |-> <<>>,
         x |-> spec.x, y |-> spec.y - bgHeight,
         width |-> bgWidth, height |-> bgHeight, size |-> 0]

\* the arguments of page.drawRectangle
ClearRect(spec, lines, fitted) ==
    LET bgWidth  == OrElse(spec.width, maxLineWidth(lines, fitted))
        bgHeight == OrElse(spec.height,
                           estimateBlockHeight(Len(lines), fitted, spec.lineHeight))
    IN  [op |-> "rect", page |-> spec.pageIndex, text |-> <<>>,
         x |-> spec.x, y |-> spec.y - bgHeight + fitted \div 5,
         width |-> bgWidth, height |-> bgHeight, size |-> 0]

\* the arguments of the page.drawText of line i (1-based here, i - 1 in the code)
TextDraw(spec, lines, i, fitted, al) ==
    LET lineHeight == OrElse(spec.lineHeight, (fitted * 6) \div 5)
        lineWidth  == widthOfTextAtSize(lines[i], fitted)
    IN  [op |-> "text", page |-> spec.pageIndex, text |-> lines[i],
         x |-> computeAlignedX(spec.x, spec.width, al, lineWidth),
         y |-> spec.y - (i - 1) * lineHeight,
         width |-> lineWidth, height |-> 0, size |-> fitted]

\* the body of the field loop for one mapped entry: the values it computes and
\* the draw calls it makes on the page, in order
FieldPass(spec, rawValue, opts, seg) ==
    LET dir    == direction(spec, rawValue, OptBool(opts.autoDetectRtl, TRUE))
        al     == align(spec, dir, OptBool(opts.defaultRtlAlignRight, TRUE))
        base   == baseFontSize(spec, opts)
        text   == rendered(dir, rawValue, seg)
        lines  == SplitLines(text)
        fit    == FitRun(lines, spec, base)
        fitted == fit.size
        clear  == spec.clearBackground /\ (Truthy(spec.width) \/ Truthy(spec.height))
    IN  [direction |-> dir, align |-> al, baseFontSize |-> base,
         rendered |-> text, lines |-> lines,
         fittedFontSize |-> fitted, measured |-> fit.measured,
         draws |-> (IF clear THEN <<ClearRect(spec, lines, fitted)>> ELSE <<>>)
                   \o [i \in 1..Len(lines) |-> TextDraw(spec, lines, i, fitted, al)]]

NoPass ==
    [direction |-> "none", align |-> "none", baseFontSize |-> None,
     rendered |-> <<>>, lines |-> <<>>, fittedFontSize |-> None, measured |-> 0,
     draws |-> <<>>]

FillField ==
    /\ fieldPc = "start"
    /\ fieldOut' = FieldPass(fieldSpec, fieldValue, fieldOpts, hasSegmenter)
    /\ fieldPc' = "done"
    /\ UNCHANGED <<hasSegmenter, fieldSpec, fieldValue, fieldOpts, rtlVars, alignVars, fillVars>>

NextField == FillField

(***************************** the parts not running ***********************)
IdleRtl ==
    rtlIn = <<>> /\ rtlOut = <<>> /\ rtlOut2 = <<>> /\ rtlPc = "idle"

IdleAlign ==
    /\ alignIn = [x |-> 0, width |-> None, align |-> "left", textWidth |-> 0]
    /\ alignOut = None /\ alignPc = "idle"

IdleField ==
    /\ fieldSpec = PlainSpec /\ fieldValue = <<>> /\ fieldOpts = PlainOpts
    /\ fieldOut = NoPass /\ fieldPc = "idle"

\* outputPath before the call writes to it: whatever it held
PrevFile == [content |-> "previous", chunks |-> 0]

\* the page as mounted: no document, page 1, scale 1.5, nothing hovered,
\* clicked or saved; a point is the index of the page it was taken on
NoUi ==
    [pdf |-> 0, pageIndex |-> 0, scale |-> 15, hoverPoint |-> None,
     lastClick |-> None, fieldMap |-> None]

BlankCanvas == [pdf |-> 0, pageIndex |-> 0, scale |-> 0]

BlankOverlay ==
    [pageIndex |-> 0, scale |-> 0, hover |-> FALSE, click |-> FALSE, field |-> FALSE]

IdleMapper ==
    /\ mPicked = 0 /\ mLoads = {} /\ mUi = NoUi /\ mRenders = {}
    /\ mCanvas = BlankCanvas /\ mOverlay = BlankOverlay /\ mEvents = 0

Calls == {1, 2}

NoResult == [returned |-> FALSE, fonts |-> 0, draws |-> <<>>]

IdleCall == [pc |-> "idle", fields |-> <<>>, doc |-> 0, result |-> NoResult]

IdlePost == calls = [c \in Calls |-> IdleCall] /\ docs = <<>> /\ IdleMapper

IdleFill ==
    /\ fields = <<>> /\ mappedKeys = {} /\ pc = "idle" /\ entries = <<>> /\ next = 1
    /\ pdfDoc = <<>> /\ outBytes = [returned |-> FALSE, doc |-> <<>>]
    /\ error = "none" /\ outFile = PrevFile
    /\ IdlePost

(***************************** rtlVisualize, run ***************************)
RtlAlphabet == {"alef", "bet", "hiriq", "A", "7", "2", "sp", "at"}

RtlInputs == StringsUpTo(RtlAlphabet, MaxLen)

InitRtl ==
    /\ hasSegmenter \in BOOLEAN
    /\ rtlIn \in RtlInputs
    /\ rtlOut = <<>>
    /\ rtlOut2 = <<>>
    /\ rtlPc = "start"
    /\ IdleAlign /\ IdleField /\ IdleFill

Visualize ==
    /\ rtlPc = "start"
    /\ rtlOut' = rtlVisualize(rtlIn, hasSegmenter)
    /\ rtlPc' = "once"
    /\ UNCHANGED <<hasSegmenter, rtlIn, rtlOut2, alignVars, fieldVars, fillVars>>

VisualizeAgain ==
    /\ rtlPc = "once"
    /\ rtlOut2' = rtlVisualize(rtlOut, hasSegmenter)
    /\ rtlPc' = "twice"
    /\ UNCHANGED <<hasSegmenter, rtlIn, rtlOut, alignVars, fieldVars, fillVars>>

NextRtl == Visualize \/ VisualizeAgain

SpecRtl == InitRtl /\ [][NextRtl]_vars

(***************************** computeAlignedX, run ************************)
AlignInputs ==
    [x : {0, Pt(90)}, width : {None, 0, Pt(30), Pt(100)},
     align : {"left", "center", "right"},
     textWidth : {0, Pt(40), Pt(100), Pt(120)}]

InitAlign ==
    /\ hasSegmenter = TRUE
    /\ alignIn \in AlignInputs
    /\ alignOut = None /\ alignPc = "start"
    /\ IdleRtl /\ IdleField /\ IdleFill

AlignLine ==
    /\ alignPc = "start"
    /\ alignOut' = computeAlignedX(alignIn.x, alignIn.width, alignIn.align,
                                   alignIn.textWidth)
    /\ alignPc' = "done"
    /\ UNCHANGED <<hasSegmenter, alignIn, rtlVars, fieldVars, fillVars>>

NextAlign == AlignLine

SpecAlign == InitAlign /\ [][NextAlign]_vars

(***************************** one field, run ******************************)
\* the field loop body on every direction, alignment and option setting
DirSpecs ==
    {[PlainSpec EXCEPT !.direction = d, !.align = a, !.width = w] :
        d \in {"unset", "ltr", "rtl", "auto"},
        a \in {"unset", "left", "center", "right"},
        w \in {None, 0, Pt(300)}}

DirOpts ==
    {[PlainOpts EXCEPT !.autoDetectRtl = ad, !.defaultRtlAlignRight = ar] :
        ad \in {"unset", "true", "false"}, ar \in {"unset", "true", "false"}}

DirValues == StringsUpTo({"alef", "A", "nl"}, MaxValueLen)

InitDir ==
    /\ hasSegmenter \in BOOLEAN
    /\ fieldSpec \in DirSpecs
    /\ fieldOpts \in DirOpts
    /\ fieldValue \in DirValues
    /\ fieldOut = NoPass /\ fieldPc = "start"
    /\ IdleRtl /\ IdleAlign /\ IdleFill

SpecDir == InitDir /\ [][NextField]_vars

\* the field loop body on every width and font size setting
FitSpecs ==
    {[PlainSpec EXCEPT !.width = w, !.fontSize = fs, !.maxFontSize = mx,
                       !.minFontSize = mn, !.align = a] :
        a  \in {"unset", "left", "center", "right"},
        w  \in {None, 0, Pt(10), Pt(23), Pt(40)},
        fs \in {None, Pt(5), Pt(12)},
        mx \in {None, Pt(4), Pt(10), Pt(7) + Pt(1) \div 4},
        mn \in {None, Pt(5), Pt(8)}}

FitOpts == {[PlainOpts EXCEPT !.defaultFontSize = d] : d \in {None, Pt(9)}}

FitValues == StringsUpTo({"A", "nl"}, MaxValueLen)

InitFit ==
    /\ hasSegmenter = TRUE
    /\ fieldSpec \in FitSpecs
    /\ fieldOpts \in FitOpts
    /\ fieldValue \in FitValues
    /\ fieldOut = NoPass /\ fieldPc = "start"
    /\ IdleRtl /\ IdleAlign /\ IdleFill

SpecFit == InitFit /\ [][NextField]_vars

(***************************** the lines of one field ***********************)
LayoutSpecs ==
    {[PlainSpec EXCEPT !.direction = d, !.width = w, !.height = h,
                       !.lineHeight = lh, !.clearBackground = cb] :
        d  \in {"unset", "ltr"},
        w  \in {None, 0, Pt(40)},
        h  \in {None, 0, Pt(20)},
        lh \in {None, 0, Pt(14)},
        cb \in BOOLEAN}

LayoutValues ==
    StringsUpTo({"A", "alef", "nl", "cr"}, MaxValueLen)
        \cup {<<"A", "cr", "nl", "nl", "alef">>}

InitLayout ==
    /\ hasSegmenter \in BOOLEAN
    /\ fieldSpec \in LayoutSpecs
    /\ fieldOpts = PlainOpts
    /\ fieldValue \in LayoutValues
    /\ fieldOut = NoPass /\ fieldPc = "start"
    /\ IdleRtl /\ IdleAlign /\ IdleFill

SpecLayout == InitLayout /\ [][NextField]_vars

(***************************** fillFieldsInPlace ***************************)
\* The template, the font file and every pageIndex are valid: the request's
\* keys and the write of the output file are what can fail here.
Keys == {"name", "id", "7", "2"}

\* the FieldSpec the field map gives a key, when it maps it
FieldMapSpecs ==
    [k \in Keys |->
        CASE k = "name" -> [PlainSpec EXCEPT !.width = Pt(300), !.fontSize = Pt(12),
                                             !.clearBackground = TRUE]
          [] k = "id"   -> [PlainSpec EXCEPT !.x = Pt(420), !.width = Pt(120),
                                             !.fontSize = Pt(12),
                                             !.clearBackground = TRUE]
          [] k = "7"    -> [PlainSpec EXCEPT !.y = Pt(610), !.direction = "rtl"]
          [] k = "2"    -> [PlainSpec EXCEPT !.pageIndex = 1, !.width = Pt(10)]]

FillValues == {<<"A">>, <<"alef", "nl", "A">>}

Entry == [key : Keys, value : FillValues]

\* a request holds each key at most once
Requests ==
    {f \in UNION {[1..n -> Entry] : n \in 0..MaxFields} :
        \A i, j \in 1..Len(f) : i # j => f[i].key # f[j].key}

\* Object.entries(fields): the own property keys in the order of ECMAScript,
\* first the integer-like keys in ascending numeric order, then the other
\* keys in the order they were added
IndexKeys == <<"2", "7">>

IsIndexKey(k) == \E j \in 1..Len(IndexKeys) : IndexKeys[j] = k

HasKey(f, k) == \E i \in 1..Len(f) : f[i].key = k

EntryOf(f, k) == f[CHOOSE i \in 1..Len(f) : f[i].key = k]

\* (mutant) the entries in the order they were added, whatever the keys
ObjectEntriesAsAdded(f) == f

ObjectEntries(f) ==
    Join([j \in 1..Len(IndexKeys) |->
             IF HasKey(f, IndexKeys[j]) THEN <<EntryOf(f, IndexKeys[j])>> ELSE <<>>])
    \o SelectSeq(f, LAMBDA e : ~IsIndexKey(e.key))

NoBytes == [returned |-> FALSE, doc |-> <<>>]

InitFill ==
    /\ hasSegmenter = TRUE
    /\ fields \in Requests
    /\ mappedKeys \in SUBSET Keys
    /\ pc = "readInput"
    /\ entries = <<>> /\ next = 1 /\ pdfDoc = <<>>
    /\ outBytes = NoBytes /\ error = "none" /\ outFile = PrevFile
    /\ IdleRtl /\ IdleAlign /\ IdleField /\ IdlePost

Others == <<hasSegmenter, rtlVars, alignVars, fieldVars, fields, mappedKeys, postVars>>

\* const inputBytes = await fs.readFile(inputPath)
ReadInput ==
    /\ pc = "readInput"
    /\ pc' = "load"
    /\ UNCHANGED <<Others, entries, next, pdfDoc, outBytes, error, outFile>>

\* const pdfDoc = await PDFDocument.load(inputPdfBytes)
LoadDocument ==
    /\ pc = "load"
    /\ pdfDoc' = <<>>
    /\ pc' = "font"
    /\ UNCHANGED <<Others, entries, next, outBytes, error, outFile>>

\* the font is embedded, the options get their defaults, the loop starts
EmbedFont ==
    /\ pc = "font"
    /\ entries' = ObjectEntries(fields)
    /\ next' = 1
    /\ pc' = "loop"
    /\ UNCHANGED <<Others, pdfDoc, outBytes, error, outFile>>

\* (mutant) the unmapped entry is skipped instead of rejecting the call
UnknownFieldSkipped ==
    /\ pc = "loop" /\ next <= Len(entries)
    /\ entries[next].key \notin mappedKeys
    /\ next' = next + 1
    /\ UNCHANGED <<Others, entries, pc, pdfDoc, outBytes, error, outFile>>

\* an iteration whose key the field map does not have: the call is rejected
UnknownField ==
    /\ pc = "loop" /\ next <= Len(entries)
    /\ entries[next].key \notin mappedKeys
    /\ error' = "unknown field"
    /\ pc' = "failed"
    /\ UNCHANGED <<Others, entries, next, pdfDoc, outBytes, outFile>>

\* (mutant) an iteration that makes the draw calls of its field twice
DrawFieldTwice ==
    /\ pc = "loop" /\ next <= Len(entries)
    /\ entries[next].key \in mappedKeys
    /\ LET e    == entries[next]
           pass == FieldPass(FieldMapSpecs[e.key], e.value, PlainOpts, hasSegmenter)
           tagged == [i \in 1..Len(pass.draws) |->
                         [field |-> e.key, draw |-> pass.draws[i]]]
       IN  pdfDoc' = pdfDoc \o tagged \o tagged
    /\ next' = next + 1
    /\ UNCHANGED <<Others, entries, pc, outBytes, error, outFile>>

\* an iteration whose key the field map has: the field is drawn
DrawField ==
    /\ pc = "loop" /\ next <= Len(entries)
    /\ entries[next].key \in mappedKeys
    /\ LET e    == entries[next]
           pass == FieldPass(FieldMapSpecs[e.key], e.value, PlainOpts, hasSegmenter)
       IN  pdfDoc' = pdfDoc \o [i \in 1..Len(pass.draws) |->
                                   [field |-> e.key, draw |-> pass.draws[i]]]
    /\ next' = next + 1
    /\ UNCHANGED <<Others, entries, pc, outBytes, error, outFile>>

\* return await pdfDoc.save()
SaveDocument ==
    /\ pc = "loop" /\ next > Len(entries)
    /\ outBytes' = [returned |-> TRUE, doc |-> pdfDoc]
    /\ pc' = "write"
    /\ UNCHANGED <<Others, entries, next, pdfDoc, error, outFile>>

\* await fs.writeFile(outputPath, outBytes): the file is opened with flag "w",
\* which truncates it, written piece by piece, and closed
OpenOutput ==
    /\ pc = "write"
    /\ outFile' = [content |-> "new", chunks |-> 0]
    /\ pc' = "writing"
    /\ UNCHANGED <<Others, entries, next, pdfDoc, outBytes, error>>

WriteChunk ==
    /\ pc = "writing" /\ outFile.chunks < DocChunks
    /\ outFile' = [outFile EXCEPT !.chunks = @ + 1]
    /\ UNCHANGED <<Others, entries, next, pdfDoc, outBytes, error, pc>>

CloseOutput ==
    /\ pc = "writing" /\ outFile.chunks = DocChunks
    /\ pc' = "done"
    /\ UNCHANGED <<Others, entries, next, pdfDoc, outBytes, error, outFile>>

\* an I/O error of the open or of a write (no space, no permission)
WriteFails ==
    /\ pc \in {"write", "writing"}
    /\ error' = "write failed"
    /\ pc' = "failed"
    /\ UNCHANGED <<Others, entries, next, pdfDoc, outBytes, outFile>>

NextFill ==
    \/ ReadInput \/ LoadDocument \/ EmbedFont
    \/ UnknownField \/ DrawField \/ SaveDocument
    \/ OpenOutput \/ WriteChunk \/ CloseOutput \/ WriteFails

SpecFill == InitFill /\ [][NextFill]_vars

(***************************** POST /api/fill-pdf, twice *******************)
\* Two requests served by one Node process. Each handler runs until its next
\* await; at an await the other handler may run. The template, the font file
\* and the imported fieldMap are read and never written.
PostMappedKeys == {"name", "id", "7"}

PostRequests ==
    {f \in Requests :
        /\ Len(f) <= 2
        /\ (Len(f) = 2 => f[1].key = "name" /\ \A i \in 1..2 : f[i].value = <<"A">>)}

\* the draw calls the field loop makes for the entries es, up to the first
\* entry the field map lacks
RECURSIVE LoopDraws(_)
LoopDraws(es) ==
    IF es = <<>> \/ Head(es).key \notin PostMappedKeys THEN <<>>
    ELSE LET e    == Head(es)
             pass == FieldPass(FieldMapSpecs[e.key], e.value, PlainOpts, TRUE)
         IN  [i \in 1..Len(pass.draws) |-> [field |-> e.key, draw |-> pass.draws[i]]]
             \o LoopDraws(Tail(es))

\* the loop throws: some entry has no FieldSpec
LoopThrows(es) == \E i \in 1..Len(es) : es[i].key \notin PostMappedKeys

InitPost ==
    /\ hasSegmenter = TRUE
    /\ calls \in [Calls -> {[IdleCall EXCEPT !.pc = "json", !.fields = f] :
                                f \in PostRequests}]
    /\ docs = <<>> /\ IdleMapper
    /\ IdleRtl /\ IdleAlign /\ IdleField
    /\ fields = <<>> /\ mappedKeys = {} /\ pc = "idle" /\ entries = <<>> /\ next = 1
    /\ pdfDoc = <<>> /\ outBytes = NoBytes /\ error = "none" /\ outFile = PrevFile

PostOthers ==
    <<hasSegmenter, rtlVars, alignVars, fieldVars,
      fields, mappedKeys, pc, entries, next, pdfDoc, outBytes, error, outFile,
      mapperVars>>

\* const fields = await req.json()
PostJson(c) ==
    /\ calls[c].pc = "json"
    /\ calls' = [calls EXCEPT ![c].pc = "readTemplate"]
    /\ UNCHANGED <<PostOthers, docs>>

\* const templateBytes = await fs.readFile(templatePath)
PostReadTemplate(c) ==
    /\ calls[c].pc = "readTemplate"
    /\ calls' = [calls EXCEPT ![c].pc = "load"]
    /\ UNCHANGED <<PostOthers, docs>>

\* (mutant) the document is loaded once and kept for the requests that follow
PostLoadCached(c) ==
    /\ calls[c].pc = "load"
    /\ docs' = IF docs = <<>> THEN <<[fonts |-> 0, draws |-> <<>>]>> ELSE docs
    /\ calls' = [calls EXCEPT ![c].pc = "readFont", ![c].doc = 1]
    /\ UNCHANGED PostOthers

\* const pdfDoc = await PDFDocument.load(inputPdfBytes): a new document
PostLoad(c) ==
    /\ calls[c].pc = "load"
    /\ docs' = Append(docs, [fonts |-> 0, draws |-> <<>>])
    /\ calls' = [calls EXCEPT ![c].pc = "readFont", ![c].doc = Len(docs) + 1]
    /\ UNCHANGED PostOthers

\* pdfDoc.registerFontkit(fontkit); const fontBytes = await fs.readFile(...)
PostReadFont(c) ==
    /\ calls[c].pc = "readFont"
    /\ calls' = [calls EXCEPT ![c].pc = "embed"]
    /\ UNCHANGED <<PostOthers, docs>>

\* font = await pdfDoc.embedFont(fontBytes): the font is added to the document
PostEmbedFont(c) ==
    /\ calls[c].pc = "embed"
    /\ docs' = [docs EXCEPT ![calls[c].doc].fonts = @ + 1]
    /\ calls' = [calls EXCEPT ![c].pc = "loop"]
    /\ UNCHANGED PostOthers

\* the field loop, which awaits nothing: it draws on the document of the call
\* until it has drawn every entry or throws, and then save is called
PostLoop(c) ==
    /\ calls[c].pc = "loop"
    /\ LET es == ObjectEntries(calls[c].fields)
       IN  /\ docs' = [docs EXCEPT ![calls[c].doc].draws = @ \o LoopDraws(es)]
           /\ calls' = [calls EXCEPT ![c].pc = IF LoopThrows(es) THEN "failed"
                                                                 ELSE "save"]
    /\ UNCHANGED PostOthers

\* return await pdfDoc.save(): the bytes of the document of the call; the
\* handler answers with them
PostSave(c) ==
    /\ calls[c].pc = "save"
    /\ calls' = [calls EXCEPT ![c].pc = "returned",
                              ![c].result = [returned |-> TRUE,
                                             fonts |-> docs[calls[c].doc].fonts,
                                             draws |-> docs[calls[c].doc].draws]]
    /\ UNCHANGED <<PostOthers, docs>>

NextPost ==
    \E c \in Calls :
        \/ PostJson(c) \/ PostReadTemplate(c) \/ PostLoad(c) \/ PostReadFont(c)
        \/ PostEmbedFont(c) \/ PostLoop(c) \/ PostSave(c)

SpecPost == InitPost /\ [][NextPost]_vars

(***************************** the field mapper page ***********************)
\* Every await of onPickFile and of renderPageAndOverlay is a point where
\* events and the other pending calls run. A call of renderPageAndOverlay
\* reads the state of the render that created it. Two pending calls that
\* closed over the same state and stand at the same await are one element of
\* mRenders.
MaxPicks == 2

MaxEvents == 3

\* every document has two pages
PageIndexes == {0, 1}

\* the scale, in tenths
Scales == {15, 20}

\* what page.render paints for the state u
CanvasOf(u) == [pdf |-> u.pdf, pageIndex |-> u.pageIndex, scale |-> u.scale]

\* what drawOverlay draws for the state u: the markers of the points that lie
\* on the page shown
OverlayOf(u) ==
    [pageIndex |-> u.pageIndex, scale |-> u.scale,
     hover |-> (u.hoverPoint = u.pageIndex),
     click |-> (u.lastClick = u.pageIndex),
     field |-> (u.fieldMap = u.pageIndex)]

\* the effect that follows a render with changed state: renderPageAndOverlay
\* returns at once without a document and is pending at getPage with one
Effect(u) == IF u.pdf = 0 THEN {} ELSE {[snap |-> u, pc |-> "getPage"]}

InitMapper ==
    /\ hasSegmenter = TRUE
    /\ IdleMapper
    /\ IdleRtl /\ IdleAlign /\ IdleField
    /\ fields = <<>> /\ mappedKeys = {} /\ pc = "idle" /\ entries = <<>> /\ next = 1
    /\ pdfDoc = <<>> /\ outBytes = NoBytes /\ error = "none" /\ outFile = PrevFile
    /\ calls = [c \in Calls |-> IdleCall] /\ docs = <<>>

MapperOthers ==
    <<hasSegmenter, rtlVars, alignVars, fieldVars,
      fields, mappedKeys, pc, entries, next, pdfDoc, outBytes, error, outFile,
      calls, docs>>

\* a state change made by an event handler, and the effect it triggers
SetState(u) ==
    /\ mEvents < MaxEvents
    /\ mEvents' = mEvents + 1
    /\ mUi' = u
    /\ mRenders' = mRenders \cup Effect(u)
    /\ UNCHANGED <<MapperOthers, mPicked, mLoads, mCanvas, mOverlay>>

\* the file input changes: onPickFile(f) runs up to its first await
PickFile ==
    /\ mPicked < MaxPicks
    /\ mPicked' = mPicked + 1
    /\ mLoads' = mLoads \cup {[file |-> mPicked + 1, pc |-> "arrayBuffer"]}
    /\ UNCHANGED <<MapperOthers, mUi, mRenders, mCanvas, mOverlay, mEvents>>

\* const buf = await file.arrayBuffer(); getDocument({ data: buf })
LoadGotBuffer(l) ==
    /\ l \in mLoads /\ l.pc = "arrayBuffer"
    /\ mLoads' = (mLoads \ {l}) \cup {[l EXCEPT !.pc = "getDocument"]}
    /\ UNCHANGED <<MapperOthers, mPicked, mUi, mRenders, mCanvas, mOverlay, mEvents>>

\* const loadedPdf = await loadingTask.promise; setPdf(loadedPdf);
\* setPageIndex(0); setHoverPoint(null); setLastClick(null): one render
LoadDone(l) ==
    /\ l \in mLoads /\ l.pc = "getDocument"
    /\ mLoads' = mLoads \ {l}
    /\ LET u == [mUi EXCEPT !.pdf = l.file, !.pageIndex = 0,
                             !.hoverPoint = None, !.lastClick = None]
       IN  mUi' = u /\ mRenders' = mRenders \cup Effect(u)
    /\ UNCHANGED <<MapperOthers, mPicked, mCanvas, mOverlay, mEvents>>

\* Prev and Next, disabled without a document and at the first and last page
ChangePage(p) ==
    /\ mUi.pdf # 0 /\ p # mUi.pageIndex
    /\ SetState([mUi EXCEPT !.pageIndex = p])

\* setScale(Number(e.target.value)); the same value changes nothing
ChangeScale(sc) ==
    /\ sc # mUi.scale
    /\ SetState([mUi EXCEPT !.scale = sc])

\* onMouseMove: if (!pdf) return; setHoverPoint({ pageIndex, x, y })
onMouseMove ==
    /\ mUi.pdf # 0
    /\ SetState([mUi EXCEPT !.hoverPoint = mUi.pageIndex])

\* onMouseLeave: setHoverPoint(null); null over null changes nothing
onMouseLeave ==
    /\ mUi.hoverPoint # None
    /\ SetState([mUi EXCEPT !.hoverPoint = None])

\* onClick: if (!pdf) return; setLastClick({ pageIndex, x, y })
onClick ==
    /\ mUi.pdf # 0
    /\ SetState([mUi EXCEPT !.lastClick = mUi.pageIndex])

\* addFieldAtLastClick: if (!lastClick) return; the field is set to lastClick
addFieldAtLastClick ==
    /\ mUi.lastClick # None
    /\ SetState([mUi EXCEPT !.fieldMap = mUi.lastClick])

\* deleteField(name), offered for a saved field
deleteField ==
    /\ mUi.fieldMap # None
    /\ SetState([mUi EXCEPT !.fieldMap = None])

\* const page = await pdf.getPage(pageIndex + 1) resolves: both canvases are
\* resized, which clears them, and page.render starts
RenderGotPage(t) ==
    /\ t \in mRenders /\ t.pc = "getPage"
    /\ mRenders' = (mRenders \ {t}) \cup {[t EXCEPT !.pc = "render"]}
    /\ mCanvas' = BlankCanvas
    /\ mOverlay' = BlankOverlay
    /\ UNCHANGED <<MapperOthers, mPicked, mLoads, mUi, mEvents>>

\* await page.render(...).promise resolves: the page is painted and
\* drawOverlay draws the overlay of the state the call closed over
RenderPainted(t) ==
    /\ t \in mRenders /\ t.pc = "render"
    /\ mRenders' = mRenders \ {t}
    /\ mCanvas' = CanvasOf(t.snap)
    /\ mOverlay' = OverlayOf(t.snap)
    /\ UNCHANGED <<MapperOthers, mPicked, mLoads, mUi, mEvents>>

\* getPage resolves while page.render of another call is still painting the
\* canvas: pdf.js versions that refuse a second render on a canvas in use
\* reject the new render, after the canvases were resized, and the call ends
\* there; the versions that do not are RenderGotPage
RenderRefused(t) ==
    /\ t \in mRenders /\ t.pc = "getPage"
    /\ \E o \in mRenders : o.pc = "render"
    /\ mRenders' = mRenders \ {t}
    /\ mCanvas' = BlankCanvas
    /\ mOverlay' = BlankOverlay
    /\ UNCHANGED <<MapperOthers, mPicked, mLoads, mUi, mEvents>>

NextMapper ==
    \/ PickFile
    \/ \E l \in mLoads : LoadGotBuffer(l) \/ LoadDone(l)
    \/ \E p \in PageIndexes : ChangePage(p)
    \/ \E sc \in Scales : ChangeScale(sc)
    \/ onMouseMove \/ onMouseLeave \/ onClick
    \/ addFieldAtLastClick \/ deleteField
    \/ \E t \in mRenders : RenderGotPage(t) \/ RenderRefused(t) \/ RenderPainted(t)

SpecMapper == InitMapper /\ [][NextMapper]_vars

(***************************** claims: the fill *****************************)
HasUnknown == \E i \in 1..Len(fields) : fields[i].key \notin mappedKeys

\* the place in es of the first entry the field map lacks
FirstUnknown(es) ==
    CHOOSE i \in 1..Len(es) :
        /\ es[i].key \notin mappedKeys
        /\ \A j \in 1..(i - 1) : es[j].key \in mappedKeys

C2_OutputNeverPartial ==
    \/ outFile = PrevFile
    \/ outFile.content = "new" /\ outFile.chunks = DocChunks

(***************************** claims: one field ****************************)
AutoDetectRtl == OptBool(fieldOpts.autoDetectRtl, TRUE)

DefaultRtlAlignRight == OptBool(fieldOpts.defaultRtlAlignRight, TRUE)

\* the field has a width: one is given and it is not 0, the test of the code
HasWidth == Truthy(fieldSpec.width)

\* the direction the Direction Resolver is specified to output
ResolvedDirection ==
    IF fieldSpec.direction \in {"ltr", "rtl"} THEN fieldSpec.direction
    ELSE IF AutoDetectRtl /\ containsHebrew(fieldValue) THEN "rtl" ELSE "ltr"

TextDraws == SelectSeq(fieldOut.draws, LAMBDA d : d.op = "text")

DrawnLines == [i \in 1..Len(TextDraws) |-> TextDraws[i].text]

\* C3: the resolved direction is LTR or RTL: an explicit "ltr" or "rtl" wins,
\* otherwise (unset or "auto") it is RTL iff auto-detect is on and the value
\* holds a Hebrew-block character.
C3_DirectionIsLtrOrRtl ==
    fieldPc = "done" =>
        /\ fieldOut.direction \in {"ltr", "rtl"}
        /\ fieldOut.direction = ResolvedDirection

\* C4: the text drawn is the raw value when the resolved direction is RTL, the
\* reordered value when it is LTR and the value holds a Hebrew character, the
\* raw value otherwise; a Hebrew value with direction unset and auto-detect on
\* is drawn unreordered, and right-aligned in a field that has a width (and
\* leaves the alignment to its default).
C4_DrawnTextFollowsDirection ==
    fieldPc = "done" =>
        LET expected ==
                IF ResolvedDirection = "rtl" THEN fieldValue
                ELSE IF ResolvedDirection = "ltr" /\ containsHebrew(fieldValue)
                     THEN rtlVisualize(fieldValue, hasSegmenter)
                     ELSE fieldValue
        IN  /\ DrawnLines = SplitLines(expected)
            /\ (/\ fieldSpec.direction = "unset" /\ fieldOpts.autoDetectRtl = "true"
                 /\ containsHebrew(fieldValue)
                 => /\ DrawnLines = SplitLines(fieldValue)
                    /\ (/\ HasWidth /\ fieldSpec.align = "unset"
                         /\ DefaultRtlAlignRight
                         => \A i \in 1..Len(TextDraws) :
                                TextDraws[i].x + TextDraws[i].width
                                    = fieldSpec.x + fieldSpec.width))

\* C5: the alignment is FieldSpec.align when given; otherwise "right" exactly
\* when the resolved direction is RTL, the field has a width and
\* defaultRtlAlignRight is on, and "left" in every other case.
C5_AlignmentFollowsDirection ==
    fieldPc = "done" =>
        fieldOut.align =
            IF fieldSpec.align # "unset" THEN fieldSpec.align
            ELSE IF ResolvedDirection = "rtl" /\ HasWidth /\ DefaultRtlAlignRight
                 THEN "right" ELSE "left"

(***************************** claims: the font size ************************)
\* the explicit or default size: fontSize, else defaultFontSize, else 12
FallbackSize ==
    IF fieldSpec.fontSize # None THEN fieldSpec.fontSize
    ELSE IF fieldOpts.defaultFontSize # None THEN fieldOpts.defaultFontSize
    ELSE Pt(12)

MaxSize == IF fieldSpec.maxFontSize # None THEN fieldSpec.maxFontSize ELSE FallbackSize

MinSize == IF fieldSpec.minFontSize # None THEN fieldSpec.minFontSize ELSE Pt(6)

\* the measured width of the widest line drawn, at a size
WidestAt(size) == maxLineWidth(fieldOut.lines, size)

\* C6: in a field with a width at least the widest line's width at maxSize the
\* fitted size is maxSize.
C6_FitsAtMaxSize ==
    fieldPc = "done" /\ HasWidth /\ WidestAt(MaxSize) <= fieldSpec.width
        => fieldOut.fittedFontSize = MaxSize

\* C7: in a field with a width the fitted size is never below minSize; when the
\* widest line does not fit at minSize it is exactly minSize, and every line
\* is still drawn, at that size.
C7_OverflowDrawsAtMinSize ==
    fieldPc = "done" /\ HasWidth =>
        /\ fieldOut.fittedFontSize >= MinSize
        /\ (WidestAt(MinSize) > fieldSpec.width
             => /\ fieldOut.fittedFontSize = MinSize
                /\ Len(TextDraws) = Len(fieldOut.lines) /\ Len(TextDraws) >= 1
                /\ \A i \in 1..Len(TextDraws) : TextDraws[i].size = MinSize)

\* C7, witness: a line wider than the box at minSize, after the loop measured
\* it at larger sizes, drawn overflowing the box
C7_Witness ==
    /\ fieldPc = "done" /\ HasWidth /\ MaxSize > MinSize
    /\ WidestAt(MinSize) > fieldSpec.width
    /\ fieldOut.measured > 1
    /\ \E i \in 1..Len(TextDraws) : TextDraws[i].width > fieldSpec.width

C9_AlignedOffset ==
    alignPc = "done" =>
        LET a == alignIn
        IN  /\ (~Truthy(a.width) \/ a.align = "left" => alignOut = a.x)
            /\ (Truthy(a.width) /\ a.align = "center"
                 => 2 * (alignOut - a.x) = a.width - a.textWidth)
            /\ (Truthy(a.width) /\ a.align = "right"
                 => alignOut + a.textWidth = a.x + a.width)
            /\ (a.width = Pt(100) /\ a.textWidth = Pt(40)
                 => alignOut - a.x = CASE a.align = "center" -> Pt(30)
                                       [] a.align = "right"  -> Pt(60)
                                       [] a.align = "left"   -> 0)

\* C9, witness: width 100, textWidth 40, centred 30 right of the anchor
C9_Witness ==
    /\ alignPc = "done" /\ alignIn.align = "center"
    /\ alignIn.width = Pt(100) /\ alignIn.textWidth = Pt(40)
    /\ alignOut = alignIn.x + Pt(30)

(***************************** claims: rtlVisualize *************************)
\* made only of Hebrew-block characters
PureHebrew(s) == \A i \in 1..Len(s) : IsHebrew(s[i])

\* C10 as stated: on a string of Hebrew-block characters, letters and marks in
\* any arrangement, rtlVisualize applied twice gives the string back.
C10_TwiceIsIdentity ==
    rtlPc = "twice" /\ PureHebrew(rtlIn) => rtlOut2 = rtlIn

\* C10, amended: on a string of Hebrew-block characters that does not begin
\* with a combining mark, rtlVisualize applied twice gives the string back.
C10_TwiceIsIdentityNoLeadingMark ==
    rtlPc = "twice" /\ PureHebrew(rtlIn) /\ (rtlIn # <<>> => ~IsExtend(rtlIn[1]))
        => rtlOut2 = rtlIn

\* C10, witness: letters with a mark on an inner letter, reordered by the
\* grapheme segmenter and restored by the second pass
C10_Witness ==
    /\ rtlPc = "twice" /\ hasSegmenter /\ PureHebrew(rtlIn)
    /\ Len(rtlIn) >= 3 /\ ~IsExtend(rtlIn[1])
    /\ \E i \in 2..(Len(rtlIn) - 1) : IsExtend(rtlIn[i])
    /\ rtlOut # rtlIn /\ rtlOut2 = rtlIn

\* the number of places of s that hold c
Count(s, c) == Cardinality({i \in 1..Len(s) : s[i] = c})

\* made of one run only: every character of the class of the first
SingleRun(s) == \A i \in 1..Len(s) : RunClass(s[i]) = RunClass(s[1])

C12_CharactersConserved ==
    /\ (rtlPc \in {"once", "twice"}
          => /\ Len(rtlOut) = Len(rtlIn)
             /\ \A c \in RtlAlphabet : Count(rtlOut, c) = Count(rtlIn, c))
    /\ (rtlPc = "twice"
          => /\ Len(rtlOut2) = Len(rtlOut)
             /\ \A c \in RtlAlphabet : Count(rtlOut2, c) = Count(rtlOut, c))

\* C12, witness: a string of Hebrew, a Latin letter and other characters,
\* reordered by the run-splitting path
C12_Witness ==
    /\ rtlPc = "once" /\ ~IsFastPath(rtlIn) /\ Len(rtlIn) >= 4
    /\ containsHebrew(rtlIn)
    /\ \E i \in 1..Len(rtlIn) : rtlIn[i] = "A"
    /\ \E i \in 1..Len(rtlIn) : RunClass(rtlIn[i]) = "other"
    /\ rtlOut # rtlIn

\* the places of s where a cluster of a base character and its marks starts:
\* a character that is no mark, followed by a mark
ClusterStarts(s) ==
    {i \in 1..(Len(s) - 1) : ~IsExtend(s[i]) /\ IsExtend(s[i + 1])}

\* the cluster of s that starts at i: the base character and the marks after it
ClusterAt(s, i) == SubSeq(s, i, i + ExtendRun(s, i + 1))

\* t holds the cluster c unbroken: the base, then the same marks, then no mark
HoldsCluster(t, c) ==
    \E j \in 1..(Len(t) - Len(c) + 1) :
        /\ SubSeq(t, j, j + Len(c) - 1) = c
        /\ (j + Len(c) <= Len(t) => ~IsExtend(t[j + Len(c)]))

\* C13: rtlVisualize splits no grapheme cluster: a base character followed by
\* combining marks in the input is followed by the same marks, in the same
\* order, in the output, whatever the classes of the base and the marks and
\* whichever path is taken (stated for a runtime that has Intl.Segmenter, the
\* case most favourable to the statement).
C13_ClustersUnbroken ==
    rtlPc = "once" /\ hasSegmenter =>
        \A i \in ClusterStarts(rtlIn) : HoldsCluster(rtlOut, ClusterAt(rtlIn, i))

\* the maximal runs of ASCII letters and digits of s
LatinRuns(s) == {t \in {Tokens(s)[k] : k \in 1..Len(Tokens(s))} : IsLatinDigit(t[1])}

\* t holds r as a contiguous substring
HoldsRun(t, r) ==
    \E j \in 1..(Len(t) - Len(r) + 1) : SubSeq(t, j, j + Len(r) - 1) = r

\* C14: on a string that mixes Hebrew-block characters with Latin words or
\* digit runs, every maximal run of ASCII letters and digits of the input is a
\* contiguous substring of the output, its characters in their order (stated
\* for a runtime that has Intl.Segmenter).
C14_LatinRunsKept ==
    rtlPc = "once" /\ hasSegmenter /\ (\E i \in 1..Len(rtlIn) : rtlIn[i] \in HebrewLetters) =>
        \A r \in LatinRuns(rtlIn) : HoldsRun(rtlOut, r)

\* the place of key k in the request as it was supplied
SuppliedPos(k) == CHOOSE i \in 1..Len(fields) : fields[i].key = k

IndexPos(k) == CHOOSE j \in 1..Len(IndexKeys) : IndexKeys[j] = k

\* C15 as stated: the draw calls of the fields are made in the order in which
\* the request was supplied: when key a was supplied before key b, every draw
\* call for a is made before every draw call for b, numeric-looking keys
\* included.
C15_DrawsInSuppliedOrder ==
    \A d1, d2 \in 1..Len(pdfDoc) :
        SuppliedPos(pdfDoc[d1].field) < SuppliedPos(pdfDoc[d2].field) => d1 < d2

\* key a comes before key b in the own-property order of the request object:
\* integer-like keys first, in ascending numeric order, then the other keys in
\* the order supplied
KeyBefore(a, b) ==
    \/ IsIndexKey(a) /\ ~IsIndexKey(b)
    \/ IsIndexKey(a) /\ IsIndexKey(b) /\ IndexPos(a) < IndexPos(b)
    \/ ~IsIndexKey(a) /\ ~IsIndexKey(b) /\ SuppliedPos(a) < SuppliedPos(b)

\* C15, amended: the draw calls of the fields are made in the own-property
\* order of the request object: every draw call for an integer-like key is
\* made before every draw call for another key, those of integer-like keys in
\* ascending numeric order, those of the other keys in the order supplied.
C15_DrawsInPropertyOrder ==
    \A d1, d2 \in 1..Len(pdfDoc) :
        KeyBefore(pdfDoc[d1].field, pdfDoc[d2].field) => d1 < d2

\* C15, witness: a request supplied as name, "7", "2", all three drawn, "2"
\* first and name last
C15_Witness ==
    /\ Len(fields) = 3 /\ pc = "loop" /\ next > Len(entries)
    /\ fields[1].key = "name" /\ fields[2].key = "7" /\ fields[3].key = "2"
    /\ Len(pdfDoc) >= 3
    /\ pdfDoc[1].field = "2" /\ pdfDoc[Len(pdfDoc)].field = "name"

\* the draw calls made for key k, in order
DrawsOf(k) == SelectSeq(pdfDoc, LAMBDA d : d.field = k)

\* the lines of the rendered value of entry e of the request
RenderedLines(e) ==
    LET spec == FieldMapSpecs[e.key]
        dir  == direction(spec, e.value, OptBool(PlainOpts.autoDetectRtl, TRUE))
    IN  SplitLines(rendered(dir, e.value, hasSegmenter))

\* C16: when the fill has returned its bytes, each field of the request has
\* been drawn exactly once: one text draw per line of its rendered value, at
\* most one clear rectangle, made before them, all on page FieldSpec.pageIndex
\* and in one block; no draw call was made for a key the request lacks.
C16_EachFieldDrawnOnce ==
    outBytes.returned =>
        /\ outBytes.doc = pdfDoc
        /\ \A d \in 1..Len(pdfDoc) : HasKey(fields, pdfDoc[d].field)
        /\ \A i \in 1..Len(fields) :
               LET k     == fields[i].key
                   lines == RenderedLines(fields[i])
                   ds    == DrawsOf(k)
                   texts == SelectSeq(ds, LAMBDA d : d.draw.op = "text")
                   rects == SelectSeq(ds, LAMBDA d : d.draw.op = "rect")
               IN  /\ Len(texts) = Len(lines)
                   /\ \A j \in 1..Len(texts) : texts[j].draw.text = lines[j]
                   /\ Len(rects) <= 1
                   /\ (Len(rects) = 1 => ds[1].draw.op = "rect")
                   /\ \A j \in 1..Len(ds) :
                          ds[j].draw.page = FieldMapSpecs[k].pageIndex
                   /\ \A d1, d2, d3 \in 1..Len(pdfDoc) :
                          /\ d1 < d2 /\ d2 < d3
                          /\ pdfDoc[d1].field = k /\ pdfDoc[d3].field = k
                          => pdfDoc[d2].field = k

\* C16, witness: a returned fill of two of the four mapped fields, one of
\* two lines with a clear rectangle on page 0, one on page 1
C16_Witness ==
    /\ outBytes.returned /\ mappedKeys = Keys /\ Len(fields) = 2
    /\ fields[1].key = "name" /\ Len(RenderedLines(fields[1])) = 2
    /\ fields[2].key = "2"
    /\ Len(DrawsOf("name")) = 3 /\ Len(DrawsOf("2")) >= 1
    /\ DrawsOf("id") = <<>>

\* what a call with the request f returns when it runs alone
AloneResult(f) ==
    [returned |-> TRUE, fonts |-> 1, draws |-> LoopDraws(ObjectEntries(f))]

\* C17: two fills running at once do not touch each other: each has its own
\* document handle, with its own font, and whatever the interleaving at the
\* awaits each call returns the bytes it returns when it runs alone, or is
\* rejected exactly when it is rejected alone.
C17_ConcurrentFillsIndependent ==
    /\ \A c, d \in Calls :
           c # d /\ calls[c].doc # 0 /\ calls[d].doc # 0 => calls[c].doc # calls[d].doc
    /\ \A c \in Calls :
           /\ (calls[c].pc = "returned"
                 => /\ ~LoopThrows(ObjectEntries(calls[c].fields))
                    /\ calls[c].result = AloneResult(calls[c].fields))
           /\ (calls[c].pc = "failed"
                 => /\ LoopThrows(ObjectEntries(calls[c].fields))
                    /\ calls[c].result = NoResult)
           /\ (calls[c].pc \in {"loop", "save"}
                 => docs[calls[c].doc].fonts = 1)

\* C17, witness: call 2 loaded its document first and call 1 returned first,
\* so the two overlapped; call 2 has drawn other draw calls and is at its save
C17_Witness ==
    /\ calls[1].pc = "returned" /\ calls[2].pc = "save"
    /\ calls[1].doc = 2 /\ calls[2].doc = 1
    /\ Len(calls[1].result.draws) > 0 /\ Len(docs[1].draws) > 0
    /\ calls[1].result.draws # docs[1].draws

\* the sizes maxSize, maxSize - 0.5, maxSize - 1, ... above minSize
SizesAboveMin ==
    {s \in {MaxSize - k * HalfPt : k \in 0..((MaxSize - MinSize) \div HalfPt + 1)} :
        s > MinSize}

\* those of them at which the widest line is no wider than the box
FittingSizes == {s \in SizesAboveMin : WidestAt(s) <= fieldSpec.width}

\* C18: in a field with a width the fitted size is the largest of the sizes
\* maxSize, maxSize - 0.5, maxSize - 1, ... above minSize at which the widest
\* line is no wider than the box, and minSize when there is none.
C18_LargestFittingSize ==
    fieldPc = "done" /\ HasWidth =>
        IF FittingSizes = {} THEN fieldOut.fittedFontSize = MinSize
        ELSE /\ fieldOut.fittedFontSize \in FittingSizes
             /\ \A s \in FittingSizes : s <= fieldOut.fittedFontSize

\* C18, witness: a line too wide at maxSize that fits half a point lower, at a
\* size above minSize
C18_Witness ==
    /\ fieldPc = "done" /\ HasWidth
    /\ WidestAt(MaxSize) > fieldSpec.width
    /\ fieldOut.fittedFontSize = MaxSize - HalfPt
    /\ fieldOut.fittedFontSize > MinSize
    /\ WidestAt(fieldOut.fittedFontSize) = fieldSpec.width

\* ceil(2 x (maxSize - minSize)), and 0 when maxSize <= minSize
MeasureBound ==
    IF MaxSize <= MinSize THEN 0
    ELSE (MaxSize - MinSize + HalfPt - 1) \div HalfPt

\* C19: whatever maxSize and minSize are, the loop of the Size Fitter ends
\* after it measured the widest line at most ceil(2 x (maxSize - minSize))
\* times, and not once when maxSize <= minSize.
C19_MeasurementsBounded ==
    fieldPc = "done" =>
        /\ fieldOut.measured <= MeasureBound
        /\ (MaxSize <= MinSize => fieldOut.measured = 0)

\* C19, witness: maxSize - minSize is no multiple of 0.5, no size fits, and
\* the loop measured as many times as the bound allows
C19_Witness ==
    /\ fieldPc = "done" /\ HasWidth
    /\ MaxSize > MinSize /\ (MaxSize - MinSize) % HalfPt # 0
    /\ fieldOut.measured = MeasureBound /\ fieldOut.measured >= 3
    /\ fieldOut.fittedFontSize = MinSize

\* the places of the line feeds of s
NlPlaces(s) == {i \in 1..Len(s) : s[i] = "nl"}

\* the place of the k-th line feed of s
KthNl(s, k) ==
    CHOOSE p \in NlPlaces(s) : Cardinality({q \in NlPlaces(s) : q < p}) = k - 1

\* the k-th line of s: what lies between the line feed before it and the line
\* feed after it, without the carriage return that stands right before that
\* line feed
LineOf(s, k) ==
    LET from == IF k = 1 THEN 1 ELSE KthNl(s, k - 1) + 1
        to   == IF k = Cardinality(NlPlaces(s)) + 1 THEN Len(s)
                ELSE LET p == KthNl(s, k)
                     IN  IF p - 1 >= from /\ s[p - 1] = "cr" THEN p - 2 ELSE p - 1
    IN  SubSeq(s, from, to)

\* the distance between the baselines of two lines of the field
LineHeight ==
    IF fieldSpec.lineHeight # None THEN fieldSpec.lineHeight
    ELSE (fieldOut.fittedFontSize * 6) \div 5

\* C20: the rendered value is split at every line feed and every carriage
\* return + line feed, empty lines kept; each line, empty ones included, gets
\* exactly one text draw, the i-th (from 0) at y - i x lineHeight, lineHeight
\* being FieldSpec.lineHeight when given and 1.2 x the fitted size otherwise.
C20_OneDrawPerLine ==
    fieldPc = "done" =>
        /\ Len(TextDraws) = Cardinality(NlPlaces(fieldOut.rendered)) + 1
        /\ \A k \in 1..Len(TextDraws) :
               /\ TextDraws[k].text = LineOf(fieldOut.rendered, k)
               /\ TextDraws[k].y = fieldSpec.y - (k - 1) * LineHeight

\* C20, witness: a value of three lines, the first ended by carriage return +
\* line feed, the second empty, no lineHeight given
C20_Witness ==
    /\ fieldPc = "done" /\ fieldSpec.lineHeight = None
    /\ Len(TextDraws) = 3
    /\ TextDraws[1].text # <<>> /\ TextDraws[2].text = <<>> /\ TextDraws[3].text # <<>>
    /\ \E i \in 1..(Len(fieldOut.rendered) - 1) :
           fieldOut.rendered[i] = "cr" /\ fieldOut.rendered[i + 1] = "nl"
    /\ \A k \in 1..3 : "cr" \notin {TextDraws[k].text[j] : j \in 1..Len(TextDraws[k].text)}
    /\ TextDraws[3].y = fieldSpec.y - 2 * ((fieldOut.fittedFontSize * 6) \div 5)
    /\ TextDraws[3].y < TextDraws[1].y

\* the clear rectangles drawn for the field
Rects == SelectSeq(fieldOut.draws, LAMBDA d : d.op = "rect")

\* clearBackground is requested and the field has a width or a height (one
\* that is given and not 0, the test of the code)
ClearWanted ==
    fieldSpec.clearBackground /\ (Truthy(fieldSpec.width) \/ Truthy(fieldSpec.height))

\* C21: a clear rectangle is drawn exactly when clearBackground is requested
\* and the field has a width or a height; it is then drawn once, before every
\* text draw of the field, with x the anchor x, its width the width given or
\* else the measured width of the widest line at the fitted size, and its top
\* edge at anchor y + 0.2 x the fitted size.
C21_ClearRectangle ==
    fieldPc = "done" =>
        /\ Len(Rects) = (IF ClearWanted THEN 1 ELSE 0)
        /\ (ClearWanted =>
               LET r == fieldOut.draws[1]
               IN  /\ r.op = "rect"
                   /\ \A i \in 2..Len(fieldOut.draws) : fieldOut.draws[i].op = "text"
                   /\ r.x = fieldSpec.x
                   /\ r.width = (IF fieldSpec.width # None THEN fieldSpec.width
                                 ELSE WidestAt(fieldOut.fittedFontSize))
                   /\ r.y + r.height = fieldSpec.y + fieldOut.fittedFontSize \div 5)

\* C21, witness: a field with a height and no width, of two lines of unequal
\* width, cleared over the width of the wider line before its lines are drawn
C21_Witness ==
    /\ fieldPc = "done" /\ ClearWanted /\ fieldSpec.width = None
    /\ Len(fieldOut.draws) = 3 /\ fieldOut.draws[1].op = "rect"
    /\ fieldOut.draws[2].width < fieldOut.draws[3].width
    /\ fieldOut.draws[1].width = fieldOut.draws[3].width
    /\ fieldOut.draws[1].y + fieldOut.draws[1].height > fieldSpec.y

\* s and t hold the same characters, each as many times
SameCharacters(s, t) ==
    /\ Len(s) = Len(t)
    /\ \A i \in 1..Len(s) : Count(s, s[i]) = Count(t, s[i])

\* C22: reordering moves no text between lines and keeps the lines in their
\* order: as many lines are drawn as the raw value has, and the i-th line
\* drawn holds exactly the characters of the i-th line of the raw value
\* (stated for a runtime that has Intl.Segmenter).
C22_LinesKeepTheirText ==
    fieldPc = "done" /\ hasSegmenter =>
        LET raw == SplitLines(fieldValue)
        IN  /\ Len(TextDraws) = Len(raw)
            /\ \A i \in 1..Len(TextDraws) :
                   /\ SameCharacters(TextDraws[i].text, raw[i])
                   /\ TextDraws[i].y = fieldSpec.y - (i - 1) * LineHeight

\* C23: when the FieldSpec gives a fontSize, no line of the field is drawn at
\* a size above it, whatever width and minFontSize are (stated for a FieldSpec
\* without maxFontSize, where the explicit size is also the largest allowed).
C23_ExplicitSizeNeverEnlarged ==
    fieldPc = "done" /\ fieldSpec.fontSize # None /\ fieldSpec.maxFontSize = None =>
        \A i \in 1..Len(TextDraws) : TextDraws[i].size <= fieldSpec.fontSize

\* C24: in a field with a width whose widest line is no wider than the box at
\* the fitted size, every line drawn lies inside the box, whatever the
\* alignment: anchor x <= line x and line x + line width <= anchor x + width;
\* aligned "right" its right edge is at anchor x + width, aligned "center" its
\* left and right margins are equal.
C24_LinesInsideBox ==
    fieldPc = "done" /\ HasWidth /\ WidestAt(fieldOut.fittedFontSize) <= fieldSpec.width =>
        \A i \in 1..Len(TextDraws) :
            LET d     == TextDraws[i]
                left  == d.x - fieldSpec.x
                right == fieldSpec.x + fieldSpec.width - (d.x + d.width)
            IN  /\ d.width = widthOfTextAtSize(fieldOut.lines[i], fieldOut.fittedFontSize)
                /\ left >= 0 /\ right >= 0
                /\ (fieldOut.align = "right" => right = 0)
                /\ (fieldOut.align = "center" => left = right)
                /\ (fieldOut.align = "left" => left = 0)

\* C24, witness: two centred lines of unequal width, shrunk to fit, the wider
\* filling the box and the narrower with a margin on both sides
C24_Witness ==
    /\ fieldPc = "done" /\ HasWidth /\ fieldSpec.align = "center"
    /\ fieldOut.fittedFontSize < MaxSize
    /\ WidestAt(fieldOut.fittedFontSize) = fieldSpec.width
    /\ Len(TextDraws) = 2
    /\ TextDraws[1].x = fieldSpec.x
    /\ TextDraws[2].x > fieldSpec.x
    /\ TextDraws[2].x + TextDraws[2].width < fieldSpec.x + fieldSpec.width

\* no load and no render is pending
MapperQuiet == mLoads = {} /\ mRenders = {}

\* C25: once no load and no render is pending, the document displayed is the
\* file picked last, and the canvas and the overlay show the current state:
\* its page, scale, saved field, last click and hover.
C25_LatestStateShown ==
    MapperQuiet =>
        /\ (mPicked > 0 => mUi.pdf = mPicked)
        /\ (mUi.pdf # 0 => mCanvas = CanvasOf(mUi) /\ mOverlay = OverlayOf(mUi))

====
